---- MODULE Spec2Model ----
(***************************************************************************)
(* Model of regd's DecoratorRegistry (src/regd/registry.py).               *)
(*                                                                         *)
(* Function objects are numbered 1..Len(heap) in order of creation; 0 is   *)
(* None.  ann[f] is f.__annotations__ restricted to the three keys the     *)
(* registry uses; a key that is absent from the dict is absent from        *)
(* DOMAIN ann[f].                                                          *)
(*                                                                         *)
(* Spec     registers the decorators of the test suite (each returns a new *)
(*          wrapper) and applies the decorator-wrappers to any function.   *)
(* SpecAny  also registers a decorator that returns its argument.          *)
(* SpecScan also binds functions in a module and its classes, the          *)
(*          namespaces the scanning queries read.                          *)
(***************************************************************************)
EXTENDS Integers, Sequences, FiniteSets, TLC

VARIABLES
    heap,     \* the function objects: what each one is and what it closes over
    ann,      \* ann[f] = f.__annotations__
    touched,  \* functions passed to or returned by a decorator-wrapper so far
    hung,     \* TRUE once a call is stuck in the loop of _get_native_function
    mdict,    \* the scanned module's __dict__: name -> value
    cdict     \* cdict[c] = the __dict__ of class c: name -> value

vars == <<heap, ann, touched, hung, mdict, cdict>>

\* ---- bounds -------------------------------------------------------------
MaxObj == 7      \* function objects ever created
MaxArg == 2      \* distinct argument values a parametrized decorator is called with
NPlain == 2      \* plain functions defined before any registration
MaxSame == 1     \* registered decorators that return their argument unchanged
MaxScanObj == 5  \* function objects of a program whose namespaces are scanned
MaxBind == 2     \* names bound to functions in the scanned module and its classes

\* ---- program constants ---------------------------------------------------
NATIVE_FUNCTION == "native_function"
DECORATOR       == "decorator"
DECORATORS      == "decorators"

None     == 0
Diverges == -1   \* the while loop of _get_native_function never exits

EmptyDict == [k \in {} |-> None]

Objs == 1..Len(heap)

\* ---- objects -------------------------------------------------------------
\* kind: "plain"   a def'ed function
\*       "wrapper" the function a plain (native) decorator returned
\*       "deco"    new_decorator returned by DecoratorRegistry.decorator
\*       "pdeco"   new_parametrized_decorator returned by parametrized_decorator
\*       "inner"   new_decorator returned by calling a pdeco with arguments
\* fn:    the function a wrapper closes over (None otherwise)
\* by:    the callable whose call created the object: for a wrapper the
\*        decorator-wrapper that was applied (None for an unregistered
\*        decorator), for an inner decorator its pdeco
\* native: what the closed-over native decorator returns, "new" wrapper or
\*        the "same" function it was given
Obj(kind, name, fn, by, native, arg) ==
    [kind |-> kind, name |-> name, fn |-> fn, by |-> by, native |-> native, arg |-> arg]

PlainNames == <<"f", "g">>

IsDecoratorWrapper(f) == heap[f].kind \in {"deco", "pdeco", "inner"}

\* ---- namespaces ----------------------------------------------------------
\* A value bound to a name: a function, a function inside staticmethod or
\* classmethod, a class, or nothing (dict.get gives None).
NoValue == [form |-> "none", v |-> None]
Value(form, v) == [form |-> form, v |-> v]

\* The scanned module declares class A and class B( A) and may bind functions
\* under the names f and g; a class may bind one member, under the name f.
Classes == {1, 2}
ClassName(c) == IF c = 1 THEN "A" ELSE "B"
Base(c) == IF c = 2 THEN 1 ELSE None
FunctionNames == {"f", "g"}
MethodNames == {"f"}

\* dir() lists names in sorted order, upper case before lower case
Sorted == <<"A", "B", "f", "g">>

\* module.__dict__.get( name)
ModuleGet(md, name) ==
    IF \E c \in Classes : ClassName(c) = name
    THEN Value("class", CHOOSE c \in Classes : ClassName(c) = name)
    ELSE IF name \in DOMAIN md THEN md[name] ELSE NoValue

\* cls.__dict__.get( name): the class's own members only
ClassGet(cd, c, name) == IF name \in DOMAIN cd[c] THEN cd[c][name] ELSE NoValue

\* dir( cls): the names of the class and of its bases, sorted
DirClass(cd, c) ==
    SelectSeq(Sorted, LAMBDA n :
        \/ ClassGet(cd, c, n) # NoValue
        \/ Base(c) # None /\ ClassGet(cd, Base(c), n) # NoValue)

\* dir( module), sorted
DirModule(md) == SelectSeq(Sorted, LAMBDA n : ModuleGet(md, n) # NoValue)

\* type( fn) in [types.FunctionType, staticmethod, classmethod]
IsFunctionLike(val) == val.form \in {"fn", "static", "classm"}

\* _getfn: the function inside staticmethod or classmethod, else the value
_getfn(val) == val.v

\* ---- private helpers of the registry ------------------------------------
\* _get_native_function: follow native_function entries to the end.  A walk
\* of more steps than there are objects has met a cycle and never returns.
RECURSIVE Walk(_, _, _)
Walk(a, f, fuel) ==
    IF NATIVE_FUNCTION \notin DOMAIN a[f] THEN f
    ELSE IF fuel = 0 THEN Diverges
    ELSE Walk(a, a[f][NATIVE_FUNCTION], fuel - 1)

_get_native_function(a, f) == Walk(a, f, Len(a))

\* a registry that forgets to record the native function
_set_native_function_dropped(a, f, native_fn) == a

_set_native_function(a, f, native_fn) ==
    [a EXCEPT ![f] = (NATIVE_FUNCTION :> native_fn) @@ a[f]]

_set_decorator(a, f, decorator) ==
    [a EXCEPT ![f] = (DECORATOR :> decorator) @@ a[f]]

InSeq(x, s) == \E i \in 1..Len(s) : s[i] = x

\* a registry that appends without looking for the decorator first
_append_decorator_nodedup(a, f, decorator) ==
    LET native_fn == _get_native_function(a, f)
        old == IF DECORATORS \in DOMAIN a[native_fn] THEN a[native_fn][DECORATORS] ELSE <<>>
    IN  [a EXCEPT ![native_fn] = (DECORATORS :> Append(old, decorator)) @@ a[native_fn]]

\* _append_decorator, called on a function whose chain walk terminates
_append_decorator(a, f, decorator) ==
    LET native_fn == _get_native_function(a, f)
        a1 == IF DECORATORS \notin DOMAIN a[native_fn]
              THEN [a EXCEPT ![native_fn] = (DECORATORS :> <<>>) @@ a[native_fn]]
              ELSE a
    IN  IF InSeq(decorator, a1[native_fn][DECORATORS])
        THEN a1
        ELSE [a1 EXCEPT ![native_fn] =
                 (DECORATORS :> Append(a1[native_fn][DECORATORS], decorator)) @@ a1[native_fn]]

\* ---- queries -------------------------------------------------------------
get_real_function(a, f) == _get_native_function(a, f)

get_decorators(a, f) ==
    LET native_fn == _get_native_function(a, f)
    IN  IF native_fn = Diverges THEN Diverges
        ELSE IF DECORATORS \in DOMAIN a[native_fn] THEN a[native_fn][DECORATORS]
        ELSE <<>>

is_decorated_with(a, f, decorator) ==
    IF _get_native_function(a, f) = Diverges THEN Diverges
    ELSE InSeq(decorator, get_decorators(a, f))

\* ---- namespace scans -------------------------------------------------------
\* A generator's run is the entries it yielded, in order, and the exception
\* that ended it ("none" when it ran to completion).  An entry { name : fn }
\* is kept with the class whose scan produced it ("" for the module's).
Entry(cls, name, val) ==
    [key |-> IF cls = "" THEN name ELSE cls \o "." \o name, cls |-> cls, val |-> val]

\* while cls.__class__ is not type : cls = cls.__class__
ResolveClass(x) == x.cls

\* cls.__dict__.keys(): the class's own names (it has at most one)
ClassKeys(cd, c) == SelectSeq(Sorted, LAMBDA n : ClassGet(cd, c, n) # NoValue)

RECURSIVE MethodsLoop(_, _, _, _, _, _)
MethodsLoop(a, cd, c, decorator, keys, out) ==
    IF keys = <<>> THEN out
    ELSE LET methodname == Head(keys)
             method == cd[c][methodname]
         IN  MethodsLoop(a, cd, c, decorator, Tail(keys),
                 IF method.form = "fn" /\ InSeq(decorator, get_decorators(a, method.v))
                 THEN Append(out, Entry("", methodname, method))
                 ELSE out)

decorated_methods(a, cd, x, decorator) ==
    [out |-> MethodsLoop(a, cd, ResolveClass(x), decorator, ClassKeys(cd, ResolveClass(x)), <<>>),
     fault |-> "none"]

\* One element that passed the type test, in the module (c = None) or in
\* class c: yield it under its native function's name, with the value the
\* enclosing namespace binds to that name, unless the name was yielded before.
ScanElement(h, a, md, cd, r, c, val) ==
    LET f == _getfn(val)
        cls == IF c = None THEN "" ELSE ClassName(c)
        get(n) == IF c = None THEN ModuleGet(md, n) ELSE ClassGet(cd, c, n)
    IN  IF Len(get_decorators(a, f)) > 0
        THEN IF NATIVE_FUNCTION \notin DOMAIN a[f]
             THEN [r EXCEPT !.fault = "KeyError"]
             ELSE LET fname == h[a[f][NATIVE_FUNCTION]].name
                  IN  IF InSeq(fname, r.names) THEN r
                      ELSE [r EXCEPT !.out = Append(@, Entry(cls, fname, get(fname))),
                                     !.names = Append(@, fname)]
        ELSE r

RECURSIVE ClassLoop(_, _, _, _, _, _, _)
ClassLoop(h, a, md, cd, r, c, els) ==
    IF els = <<>> \/ r.fault # "none" THEN r
    ELSE LET method == ClassGet(cd, c, Head(els))
         IN  ClassLoop(h, a, md, cd,
                 IF IsFunctionLike(method)
                 THEN ScanElement(h, a, md, cd, r, c, method)
                 ELSE r,
                 c, Tail(els))

RECURSIVE ModuleLoop(_, _, _, _, _, _, _, _)
ModuleLoop(h, a, md, cd, exclude_methods, exclude_functions, r, els) ==
    IF els = <<>> \/ r.fault # "none" THEN r
    ELSE LET fn == ModuleGet(md, Head(els))
             r1 == IF ~exclude_functions /\ IsFunctionLike(fn)
                   THEN ScanElement(h, a, md, cd, r, None, fn)
                   ELSE r
             r2 == IF r1.fault = "none" /\ ~exclude_methods /\ fn.form = "class"
                   THEN ClassLoop(h, a, md, cd, r1, fn.v, DirClass(cd, fn.v))
                   ELSE r1
         IN  ModuleLoop(h, a, md, cd, exclude_methods, exclude_functions, r2, Tail(els))

all_decorated_module_functions(h, a, md, cd, exclude_methods, exclude_functions) ==
    ModuleLoop(h, a, md, cd, exclude_methods, exclude_functions,
               [out |-> <<>>, names |-> <<>>, fault |-> "none"], DirModule(md))

\* the loop of module_functions_decorated_with over the entries the inner
\* generator yields; get_decorators( None) raises AttributeError in
\* _make_portable
RECURSIVE FilterLoop(_, _, _, _)
FilterLoop(a, decorator, entries, r) ==
    IF entries = <<>> \/ r.fault # "none" THEN r
    ELSE LET mfn == Head(entries)
         IN  FilterLoop(a, decorator, Tail(entries),
                 IF mfn.val = NoValue THEN [r EXCEPT !.fault = "AttributeError"]
                 ELSE IF InSeq(decorator, get_decorators(a, _getfn(mfn.val)))
                 THEN [r EXCEPT !.out = Append(@, mfn)]
                 ELSE r)

module_functions_decorated_with(h, a, md, cd, decorator, exclude_methods, exclude_functions) ==
    LET inner == all_decorated_module_functions(h, a, md, cd, exclude_methods, exclude_functions)
        r == FilterLoop(a, decorator, inner.out, [out |-> <<>>, fault |-> "none"])
    IN  IF r.fault = "none" THEN [r EXCEPT !.fault = inner.fault] ELSE r

\* ---- decorator-wrappers ---------------------------------------------------
\* The identity a decorator-wrapper records on itself and in the decorators
\* list: new_decorator for decorator(), the enclosing
\* new_parametrized_decorator for parametrized_decorator().
RecordedIdentityPerCall(h, d) == d

RecordedIdentity(h, d) == IF h[d].kind = "inner" THEN h[d].by ELSE d

\* fn_decorator = native_decorator( fn): the plain decorators of the tests
\* return a new function named "wrapper" that closes over fn; a plain
\* decorator may also hand back the function it was given.
NativeResult(h, d, f) == IF h[d].native = "new" THEN Len(h) + 1 ELSE f

NativeHeap(h, d, f) ==
    IF h[d].native = "new"
    THEN Append(h, Obj("wrapper", "wrapper", f, d, "none", None))
    ELSE h

NativeAnn(h, a, d) == IF h[d].native = "new" THEN Append(a, EmptyDict) ELSE a

\* new_decorator( fn), statement by statement.  The result is the state the
\* call leaves behind: the one it returns in, or the one it is stuck in.
new_decorator(h, a, d, f) ==
    LET fn_decorator == NativeResult(h, d, f)
        h1 == NativeHeap(h, d, f)
        a1 == NativeAnn(h, a, d)
        native_fn == _get_native_function(a1, f)
    IN  IF native_fn = Diverges
        THEN [heap |-> h1, ann |-> a1, hung |-> TRUE, result |-> None]
        ELSE LET a2 == _set_decorator(a1, fn_decorator, d)
                 a3 == _set_native_function(a2, fn_decorator, native_fn)
                 a4 == _set_native_function(a3, RecordedIdentity(h, d), native_fn)
             IN  IF _get_native_function(a4, native_fn) = Diverges
                 THEN [heap |-> h1, ann |-> a4, hung |-> TRUE, result |-> None]
                 ELSE [heap |-> h1,
                       ann |-> _append_decorator(a4, native_fn, RecordedIdentity(h, d)),
                       hung |-> FALSE, result |-> fn_decorator]

\* ---- initial state ------------------------------------------------------
PlainName(i) == PlainNames[((i - 1) % Len(PlainNames)) + 1]

Init ==
    /\ heap = [i \in 1..NPlain |-> Obj("plain", PlainName(i), None, None, "none", None)]
    /\ ann = [i \in 1..NPlain |-> EmptyDict]
    /\ touched = {}
    /\ hung = FALSE
    /\ mdict = [n \in FunctionNames |-> NoValue]
    /\ cdict = [c \in Classes |-> [n \in MethodNames |-> NoValue]]

\* ---- actions ------------------------------------------------------------
CanCreate == ~hung /\ Len(heap) < MaxObj

\* d = DecoratorRegistry.decorator( native_decorator)
RegisterKind(nk) ==
    /\ CanCreate
    /\ heap' = Append(heap, Obj("deco", "just_decorator", None, None, nk, None))
    /\ ann' = Append(ann, EmptyDict)
    /\ UNCHANGED <<touched, hung, mdict, cdict>>

Register == RegisterKind("new")

RegisterSame ==
    /\ Cardinality({d \in Objs : heap[d].native = "same"}) < MaxSame
    /\ RegisterKind("same")

\* p = DecoratorRegistry.parametrized_decorator( native_parametrized_decorator)
RegisterParametrized ==
    /\ CanCreate
    /\ heap' = Append(heap, Obj("pdeco", "decorator_with_args", None, None, "new", None))
    /\ ann' = Append(ann, EmptyDict)
    /\ UNCHANGED <<touched, hung, mdict, cdict>>

\* p( x): new_parametrized_decorator returns a fresh new_decorator
CallParametrized ==
    \E p \in Objs, x \in 1..MaxArg :
        /\ CanCreate
        /\ heap[p].kind = "pdeco"
        /\ heap' = Append(heap, Obj("inner", "decorator", None, p, heap[p].native, x))
        /\ ann' = Append(ann, EmptyDict)
        /\ UNCHANGED <<touched, hung, mdict, cdict>>

\* d( f) for a decorator-wrapper d and any function f
Apply ==
    \E d \in Objs, f \in Objs :
        /\ ~hung
        /\ heap[d].kind \in {"deco", "inner"}
        /\ heap[d].native = "new" => Len(heap) < MaxObj
        /\ LET post == new_decorator(heap, ann, d, f)
           IN  /\ heap' = post.heap
               /\ ann' = post.ann
               /\ hung' = post.hung
               /\ touched' = touched \cup {f, NativeResult(heap, d, f)}
               /\ UNCHANGED <<mdict, cdict>>

\* free_decorator( f): a decorator that was never registered
ApplyFree ==
    \E f \in Objs :
        /\ CanCreate
        /\ heap' = Append(heap, Obj("wrapper", "wrapper", f, None, "none", None))
        /\ ann' = Append(ann, EmptyDict)
        /\ UNCHANGED <<touched, hung, mdict, cdict>>

\* a statement of the scanned module binds an existing function to a name of
\* the module (name = fn) or of one of its classes (as a plain method, or
\* inside staticmethod or classmethod)
Bound ==
    Cardinality({n \in FunctionNames : mdict[n] # NoValue})
    + Cardinality({cn \in Classes \X MethodNames : cdict[cn[1]][cn[2]] # NoValue})

BindFunction ==
    \E n \in FunctionNames, f \in Objs :
        /\ ~hung
        /\ Bound < MaxBind
        /\ mdict[n] = NoValue
        /\ mdict' = [mdict EXCEPT ![n] = Value("fn", f)]
        /\ UNCHANGED <<heap, ann, touched, hung, cdict>>

BindMethod ==
    \E c \in Classes, n \in MethodNames, f \in Objs, form \in {"fn", "static", "classm"} :
        /\ ~hung
        /\ Bound < MaxBind
        /\ cdict[c][n] = NoValue
        /\ cdict' = [cdict EXCEPT ![c][n] = Value(form, f)]
        /\ UNCHANGED <<heap, ann, touched, hung, mdict>>

Next ==
    \/ Register
    \/ RegisterParametrized
    \/ CallParametrized
    \/ Apply
    \/ ApplyFree

Spec == Init /\ [][Next]_vars

NextAny == RegisterSame \/ Next

SpecAny == Init /\ [][NextAny]_vars

\* a program that also fills the namespaces the scans read
ScanRoom == Len(heap) < MaxScanObj

NextScan ==
    \/ ScanRoom /\ Register
    \/ ScanRoom /\ RegisterParametrized
    \/ ScanRoom /\ CallParametrized
    \/ ScanRoom /\ Apply
    \/ ScanRoom /\ ApplyFree
    \/ BindFunction
    \/ BindMethod

SpecScan == Init /\ [][NextScan]_vars

\* ---- what was applied to what (read off the closures, not the metadata) ----
\* A wrapper made by a decorator-wrapper closes over the function it was
\* given; following these cells leads to the function the stack was built on.
RECURSIVE Original(_)
Original(x) ==
    IF heap[x].kind = "wrapper" /\ heap[x].by # None THEN Original(heap[x].fn) ELSE x

\* the wrappers stacked between x and Original(x), x included
RECURSIVE Stack(_)
Stack(x) ==
    IF heap[x].kind = "wrapper" /\ heap[x].by # None THEN {x} \cup Stack(heap[x].fn) ELSE {}

Family(r) == {x \in Objs : Original(x) = r}

\* the registered decorator-wrapper the program applied to make wrapper x:
\* d for d( f), p for p( args)( f)
AppliedWrapper(x) ==
    IF heap[heap[x].by].kind = "inner" THEN heap[heap[x].by].by ELSE heap[x].by

AppliedTo(r) == {AppliedWrapper(x) : x \in Family(r) \ {r}}

Elements(s) == {s[i] : i \in 1..Len(s)}

\* so far the program has decorated functions only, never a decorator-wrapper
OnlyFunctionsDecorated == \A t \in touched : ~IsDecoratorWrapper(t)

\* C1: a stack of wrappers registered with decorator(), built on a function f
\* that is not itself a product of the registry, resolves to f itself however
\* deep the stack, and is reported as decorated with every wrapper of the stack.
C1_StackResolvesToOriginal ==
    \A w \in Objs :
        ( /\ Stack(w) # {}
          /\ \A x \in Stack(w) : heap[heap[x].by].kind = "deco"
          /\ ~IsDecoratorWrapper(Original(w)) )
        => /\ get_real_function(ann, w) = Original(w)
           /\ \A x \in Stack(w) : is_decorated_with(ann, w, heap[x].by) = TRUE

C1_Witness ==
    \E w \in Objs :
        /\ Cardinality(Stack(w)) >= 2
        /\ Cardinality({heap[x].by : x \in Stack(w)}) >= 2
        /\ \A x \in Stack(w) : heap[heap[x].by].kind = "deco"
        /\ heap[Original(w)].kind = "plain"
        /\ get_real_function(ann, w) = Original(w)

\* C2: a function that was never passed to nor returned by a decorator-wrapper
\* has no decorators and is its own real function.
C2_UntouchedHasNoTrace ==
    ~hung =>
        \A f \in Objs \ touched :
            /\ get_real_function(ann, f) = f
            /\ get_decorators(ann, f) = <<>>
            /\ \A d \in Objs : is_decorated_with(ann, f, d) = FALSE

\* C3: when decorator-wrappers are stacked on an original (a function that is
\* not itself a product of the registry), get_decorators of the original, or
\* of any decorated form of it, lists exactly the distinct decorator-wrappers
\* applied to it, each once.
C3_DecoratorsAreTheDistinctApplied ==
    \A r \in Objs :
        (OnlyFunctionsDecorated /\ Original(r) = r /\ ~IsDecoratorWrapper(r))
        => \A x \in Family(r) :
               /\ Elements(get_decorators(ann, x)) = AppliedTo(r)
               /\ Len(get_decorators(ann, x)) = Cardinality(AppliedTo(r))

C3_Witness ==
    \E r \in Objs :
        /\ OnlyFunctionsDecorated
        /\ heap[r].kind = "plain"
        /\ Cardinality(AppliedTo(r)) = 2
        /\ Cardinality(Family(r)) >= 4
        /\ Len(get_decorators(ann, r)) = 2

\* C4: a wrapper p made by parametrized_decorator is recorded as p itself,
\* whatever arguments it was called with: the result of p( a)( f) is decorated
\* with p, p appears once in its decorators list and the per-call decorator
\* p( a) never does, and where only p was applied the list is exactly [p].
C4_ParametrizedRecordsOuter ==
    \A x \in Objs :
        ( /\ heap[x].kind = "wrapper"
          /\ heap[x].by # None
          /\ heap[heap[x].by].kind = "inner"
          /\ OnlyFunctionsDecorated )
        => LET p  == heap[heap[x].by].by
               ds == get_decorators(ann, x)
           IN  /\ is_decorated_with(ann, x, p) = TRUE
               /\ Cardinality({i \in 1..Len(ds) : ds[i] = p}) = 1
               /\ ~InSeq(heap[x].by, ds)
               /\ AppliedTo(Original(x)) = {p} => ds = <<p>>

C4_Witness ==
    \E x, y \in Objs :
        /\ OnlyFunctionsDecorated
        /\ heap[x].kind = "wrapper" /\ heap[y].kind = "wrapper"
        /\ heap[x].by # None /\ heap[y].by # None
        /\ heap[heap[x].by].kind = "inner" /\ heap[heap[y].by].kind = "inner"
        /\ heap[heap[x].by].by = heap[heap[y].by].by
        /\ heap[heap[x].by].arg # heap[heap[y].by].arg
        /\ Original(x) = Original(y)
        /\ heap[Original(x)].kind = "plain"
        /\ get_decorators(ann, x) = <<heap[heap[x].by].by>>

\* C10: from every function the native_function entries lead, in finitely
\* many steps, to a function without one.
C10_NativeChainsAcyclic ==
    \A f \in Objs : _get_native_function(ann, f) # Diverges

\* ---- the scans ---------------------------------------------------------------
Decorated(val) == IsFunctionLike(val) /\ Len(get_decorators(ann, _getfn(val))) > 0

NativeName(val) == heap[get_real_function(ann, _getfn(val))].name

DefaultScan == all_decorated_module_functions(heap, ann, mdict, cdict, FALSE, FALSE)

Keys(r) == {r.out[i].key : i \in 1..Len(r.out)}

\* the namespaces bind decorated or undecorated functions, no decorator-wrapper
NoDecoratorBound ==
    /\ \A n \in FunctionNames : mdict[n] # NoValue => ~IsDecoratorWrapper(mdict[n].v)
    /\ \A c \in Classes, n \in MethodNames :
           cdict[c][n] # NoValue => ~IsDecoratorWrapper(cdict[c][n].v)

\* C5: decorated_methods( c, d), for a class or an instance of it, yields
\* exactly one { name : member } entry for every member declared in the
\* class's own namespace (plain, staticmethod or classmethod) whose true
\* original lists d, and nothing else.
C5_DecoratedMethodsExact ==
    ~hung =>
        \A c \in Classes, inst \in BOOLEAN, d \in Objs :
            LET r == decorated_methods(ann, cdict, [cls |-> c, instance |-> inst], d)
                expected == {Entry("", n, cdict[c][n]) : n \in
                                {m \in MethodNames :
                                    /\ IsFunctionLike(cdict[c][m])
                                    /\ InSeq(d, get_decorators(ann, _getfn(cdict[c][m])))}}
            IN  /\ Elements(r.out) = expected
                /\ Len(r.out) = Cardinality(expected)

\* C6: a default scan that runs to completion over functions and classes yields every decorated top-level
\* function under its name and every decorated method declared in a class
\* under ClassName.methodName, and no key twice.
C6_EveryDecoratedYieldedOnce ==
    (~hung /\ NoDecoratorBound /\ DefaultScan.fault = "none") =>
        /\ \A n \in FunctionNames :
               Decorated(mdict[n]) => NativeName(mdict[n]) \in Keys(DefaultScan)
        /\ \A c \in Classes, n \in MethodNames :
               Decorated(cdict[c][n])
               => (ClassName(c) \o "." \o NativeName(cdict[c][n])) \in Keys(DefaultScan)
        /\ Cardinality(Keys(DefaultScan)) = Len(DefaultScan.out)

\* C7: exclude_functions drops exactly the top-level entries of the default
\* scan and exclude_methods exactly its method entries.
C7_FlagsIndependent ==
    LET onlyMethods == all_decorated_module_functions(heap, ann, mdict, cdict, FALSE, TRUE)
        onlyFunctions == all_decorated_module_functions(heap, ann, mdict, cdict, TRUE, FALSE)
    IN  ( /\ ~hung
          /\ NoDecoratorBound
          /\ DefaultScan.fault = "none"
          /\ onlyMethods.fault = "none"
          /\ onlyFunctions.fault = "none" )
        => /\ onlyMethods.out = SelectSeq(DefaultScan.out, LAMBDA e : e.cls # "")
           /\ onlyFunctions.out = SelectSeq(DefaultScan.out, LAMBDA e : e.cls = "")

\* C8: module_functions_decorated_with yields exactly the entries of
\* all_decorated_module_functions, under the same flags and in the same order,
\* whose function lists the decorator.
C8_FilterOfAllDecorated ==
    (~hung /\ NoDecoratorBound) =>
        \A d \in Objs, em \in BOOLEAN, ef \in BOOLEAN :
            LET all == all_decorated_module_functions(heap, ann, mdict, cdict, em, ef)
                with == module_functions_decorated_with(heap, ann, mdict, cdict, d, em, ef)
            IN  all.fault = "none"
                => with.out = SelectSeq(all.out, LAMBDA e :
                                  /\ IsFunctionLike(e.val)
                                  /\ InSeq(d, get_decorators(ann, _getfn(e.val))))

\* C9: no query raises: on every function and every namespace each of them
\* runs to completion.
C9_NoQueryRaises ==
    ~hung =>
        /\ \A f \in Objs : get_real_function(ann, f) # Diverges
        /\ \A c \in Classes, inst \in BOOLEAN, d \in Objs :
               decorated_methods(ann, cdict, [cls |-> c, instance |-> inst], d).fault = "none"
        /\ \A em \in BOOLEAN, ef \in BOOLEAN :
               /\ all_decorated_module_functions(heap, ann, mdict, cdict, em, ef).fault = "none"
               /\ \A d \in Objs :
                      module_functions_decorated_with(heap, ann, mdict, cdict, d, em, ef).fault
                          = "none"

\* C11: whatever is decorated (a function, a decorated wrapper or a
\* decorator-wrapper), a decorators list is attached only to true originals:
\* no function carries both a native_function entry and a decorators entry.
C11_DecoratorsOnlyOnOriginals ==
    \A f \in Objs :
        ~(NATIVE_FUNCTION \in DOMAIN ann[f] /\ DECORATORS \in DOMAIN ann[f])

\* C12: the decorator entry recorded on a decorated result is the identity
\* that is appended to the decorators list of its true original (the wrapper
\* itself for decorator(), the outer wrapper for parametrized_decorator()):
\* every function r that has a decorator entry has r.decorator in
\* get_decorators( r).
C12_RecordedDecoratorIsListed ==
    ~hung =>
        \A r \in Objs :
            DECORATOR \in DOMAIN ann[r]
            => InSeq(ann[r][DECORATOR], get_decorators(ann, r))

\* C13: applying a decorator-wrapper d to a function fn changes metadata only
\* on the returned function and on the true original of fn; the metadata of
\* every other function, d itself and every other decorator-wrapper included,
\* is left as it was, so get_real_function( d) and get_decorators( d) answer
\* after the call what they answered before it.
C13_ApplyChangesOnlyResultAndOriginal ==
    [][ \A d \in Objs, fn \in Objs :
            ( /\ Len(heap') = Len(heap) + 1
              /\ heap'[Len(heap')] = Obj("wrapper", "wrapper", fn, d, "none", None)
              /\ IsDecoratorWrapper(d) )
            => /\ \A x \in Objs \ {_get_native_function(ann, fn)} : ann'[x] = ann[x]
               /\ get_real_function(ann', d) = get_real_function(ann, d)
               /\ get_decorators(ann', d) = get_decorators(ann, d)
      ]_vars

====
